---- MODULE Spec2Model ----
(***************************************************************************)
(* cclui (main.go): a bubbletea chat client.  The UI loop holds a model    *)
(* VALUE and calls Update(msg) on a copy of it, one message at a time.     *)
(* Each Enter key makes a result channel, starts a consumer goroutine      *)
(* that closes over Update's own copy of the model, and returns the        *)
(* CallClaude command; the command starts the worker processAPIResponse,   *)
(* which sends the non-blank lines of the response on the channel.         *)
(*                                                                         *)
(* Go slices are modelled as headers (arr, len, cap) over a heap of        *)
(* backing arrays, because copies of the model share backing arrays.       *)
(* Strings are sequences of one-character strings.                         *)
(***************************************************************************)
EXTENDS Integers, Sequences, FiniteSets, TLC

\* ---------------------------------------------------------------- bounds
\* Enter keys handled in one run
MaxSubmits == 2
\* character keys typed in one run
MaxKeys == 1
\* non-blank lines the workers of one run put on their channels
MaxDeltas == 2
\* the same two bounds for the runs of SpecDeep, where nothing is typed and
\* the service always answers 200 with lines "x"
MaxSubmitsDeep == 4
MaxDeltasDeep == 1
\* Enter keys and records read in the runs of SpecDecode
MaxSubmitsDecode == 1
MaxReads == 3

\* ta.CharLimit
CharLimit == 280

\* characters the user types
Chars == {"a"}
\* newline-terminated records a response body is made of
Records == {<< >>, <<" ">>, <<"x">>, <<" ", "y">>}
\* the records of the bodies of SpecDecode
DecodeRecords == {<< >>, <<" ">>, <<"x">>, <<" ", "y">>, <<"x", " ">>, <<"x", " ", "y">>}

\* ------------------------------------------------------------ pure helpers
IsSpace(c) == c \in {" ", "\n", "\t", "\r"}

RECURSIVE TrimLeft(_)
TrimLeft(s) == IF s # << >> /\ IsSpace(Head(s)) THEN TrimLeft(Tail(s)) ELSE s

RECURSIVE TrimRight(_)
TrimRight(s) ==
    IF s # << >> /\ IsSpace(s[Len(s)]) THEN TrimRight(SubSeq(s, 1, Len(s) - 1)) ELSE s

\* strings.TrimSpace
TrimSpace(s) == TrimRight(TrimLeft(s))

\* what bufio.Reader.ReadString('\n') returns for a record: its text and the delimiter
ReadString(rec) == rec \o <<"\n">>

\* m.senderStyle.Render(who) + text: one transcript entry
Line(who, text) == [who |-> who, text |-> text]

\* the zero value of a string cell of a backing array
Zero == Line("", << >>)

ConstructUserMessage(content) == [role |-> "user", content |-> content]

\* the request body: model, max_tokens and the messages list
constructJsonBody(content) ==
    [model |-> "claude-3-opus-20240229",
     max_tokens |-> 4096,
     messages |-> << ConstructUserMessage(content) >>]

\* ------------------------------------------------------------------ slices
\* capacity append() gives a full []string of capacity c
Grow(c) == IF c = 0 THEN 1 ELSE 2 * c

\* the elements a slice header sees
Elems(h, s) == [i \in 1..s.len |-> h[s.arr][i]]

\* append(s, x) by `owner` (0: the UI loop, r: the consumer of request r):
\* in place when there is spare capacity, else into a new backing array.
\* Two goroutines appending through headers that share an array is a data
\* race; each append is one step here, and both orders of the steps occur.
AppendSlice(h, s, x, owner) ==
    IF s.len < s.cap
    THEN [heap |-> [h EXCEPT ![s.arr][s.len + 1] = x],
          s    |-> [s EXCEPT !.len = s.len + 1]]
    ELSE LET c  == Grow(s.cap)
             id == <<owner, c>>
             cells == [i \in 1..c |-> IF i <= s.len THEN h[s.arr][i]
                                      ELSE IF i = s.len + 1 THEN x ELSE Zero]
         IN [heap |-> [a \in DOMAIN h \cup {id} |-> IF a = id THEN cells ELSE h[a]],
             s    |-> [arr |-> id, len |-> s.len + 1, cap |-> c]]

\* ------------------------------------------------------------------- state
VARIABLES
    textarea,   \* m.textarea.Value() of the model the UI loop holds
    messages,   \* m.messages of the model the UI loop holds (a slice header)
    viewport,   \* the content last given to m.viewport.SetContent in the UI model
    err,        \* m.err of the model the UI loop holds
    heap,       \* backing arrays of all []string slices
    reqs,       \* one record per Enter handled: command, worker, channel, consumer
    quit,       \* "running", "quitting" (Update returned tea.Quit), "exited"
    stdout,     \* what fmt.Println wrote
    keys        \* character keys typed so far

vars == <<textarea, messages, viewport, err, heap, reqs, quit, stdout, keys>>

Banner == <<Line("", <<"API is up and running">>)>>

Init ==
    /\ textarea = << >>
    /\ messages = [arr |-> <<0, 0>>, len |-> 0, cap |-> 0]
    /\ viewport = Banner
    /\ err = "nil"
    /\ heap = [a \in {<<0, 0>>} |-> << >>]
    /\ reqs = << >>
    /\ quit = "running"
    /\ stdout = << >>
    /\ keys = 0

\* the transcript the UI loop holds
Transcript == Elems(heap, messages)

Reqs == DOMAIN reqs

\* response statuses the service answers with
Statuses == {200, 400}

\* textarea.Reset()
Reset(value) == << >>

\* textarea.Update(msg) for a key that carries a character
InsertRune(value, c) == IF Len(value) < CharLimit THEN Append(value, c) ELSE value

\* the request record an Enter creates: the CallClaude command (content),
\* the unbuffered resultChan with its worker, and the consumer goroutine with
\* the model copy it closes over (cm: its m.messages, cview: its viewport);
\* hist keeps the transcript as it was when Update returned, terminals counts
\* the terminal events Update applied for this request; closed is the state
\* of resultChan and consumer that of the goroutine ranging over it; read
\* and tail keep the records a logged worker has read (see SpecDecode)
NewRequest(content, cm, cview) ==
    [content |-> content,
     hist    |-> cview,
     cmd     |-> "queued",
     terminals |-> 0,
     body    |-> << >>,
     status  |-> 0,
     worker  |-> "none",
     line    |-> << >>,
     sent    |-> << >>,
     read    |-> << >>,
     tail    |-> << >>,
     closed  |-> FALSE,
     consumer |-> "ranging",
     cm      |-> cm,
     cview   |-> cview]

\* ----------------------------------------------------------------- Update
\* Update(tea.KeyMsg) for a character key: only m.textarea.Update changes state
KeyRune(c) ==
    /\ quit = "running"
    /\ keys < MaxKeys
    /\ keys' = keys + 1
    /\ textarea' = InsertRune(textarea, c)
    /\ UNCHANGED <<messages, viewport, err, heap, reqs, quit, stdout>>

\* what Update does to the model and which request it starts on tea.KeyEnter
EnterEffect(h, msgs, value) ==
    LET ap      == AppendSlice(h, msgs, Line("You", value), 0)
        view    == Elems(ap.heap, ap.s)
        cleared == Reset(value)
    IN [heap     |-> ap.heap,
        messages |-> ap.s,
        viewport |-> view,
        textarea |-> cleared,
        request  |-> NewRequest(cleared, ap.s, view)]

\* Update(tea.KeyMsg{Type: tea.KeyEnter}), for at most `limit` Enter keys
Submit(limit) ==
    /\ quit = "running"
    /\ Len(reqs) < limit
    /\ LET e == EnterEffect(heap, messages, textarea)
       IN /\ heap' = e.heap
          /\ messages' = e.messages
          /\ viewport' = e.viewport
          /\ textarea' = e.textarea
          /\ reqs' = Append(reqs, e.request)
    /\ UNCHANGED <<err, quit, stdout, keys>>

KeyEnter == Submit(MaxSubmits)

\* what Update does to the model on tea.KeyCtrlC / tea.KeyEsc: it prints the
\* input box and returns m unchanged with tea.Quit
QuitEffect(msgs, view, value, out) ==
    [messages |-> msgs, viewport |-> view, textarea |-> value,
     stdout |-> Append(out, value)]

\* Update(tea.KeyMsg{Type: tea.KeyCtrlC}) or (tea.KeyEsc).  After it returned
\* tea.Quit the UI loop delivers nothing more to Update ("quitting"); commands
\* and goroutines that were started keep running until the process ends.
KeyQuit(k) ==
    /\ quit = "running"
    /\ LET q == QuitEffect(messages, viewport, textarea, stdout)
       IN /\ messages' = q.messages
          /\ viewport' = q.viewport
          /\ textarea' = q.textarea
          /\ stdout' = q.stdout
    /\ quit' = "quitting"
    /\ UNCHANGED <<err, heap, reqs, keys>>

\* UpdateErr that also drops the user message of the failed turn
UpdateErrRollback(r) ==
    /\ quit = "running"
    /\ reqs[r].cmd = "errmsg"
    /\ err' = "connection failed"
    /\ messages' = [messages EXCEPT !.len = Len(reqs[r].hist) - 1]
    /\ reqs' = [reqs EXCEPT ![r].cmd = "failed",
                            ![r].terminals = reqs[r].terminals + 1]
    /\ UNCHANGED <<textarea, viewport, heap, quit, stdout, keys>>

\* Update(errMsg): the message the command of request r returned
UpdateErr(r) ==
    /\ quit = "running"
    /\ reqs[r].cmd = "errmsg"
    /\ err' = "connection failed"
    /\ reqs' = [reqs EXCEPT ![r].cmd = "failed",
                            ![r].terminals = reqs[r].terminals + 1]
    /\ UNCHANGED <<textarea, messages, viewport, heap, quit, stdout, keys>>

\* ---------------------------------------------------------- the command
\* the closure CallClaude returns, run by the runtime off the UI loop:
\* json.Marshal of strings cannot fail, callClaudeAPI fails (errMsg) or
\* answers with a status, and then the worker is started and nil returned
\* (a nil message changes nothing in Update and is left out)
RunCmd(r, ok, st) ==
    /\ quit # "exited"
    /\ reqs[r].cmd = "queued"
    /\ reqs' = [reqs EXCEPT
            ![r].body   = constructJsonBody(reqs[r].content),
            ![r].cmd    = IF ok THEN "started" ELSE "errmsg",
            ![r].status = IF ok THEN st ELSE 0,
            ![r].worker = IF ok THEN "start" ELSE "none"]
    /\ UNCHANGED <<textarea, messages, viewport, err, heap, quit, stdout, keys>>

\* the same closure when json.Marshal returns an error: constructJsonBody
\* calls log.Fatalf, which ends the process before `return nil, err`
MarshalFails(r) ==
    /\ quit # "exited"
    /\ reqs[r].cmd = "queued"
    /\ reqs' = [reqs EXCEPT ![r].cmd = "fatal"]
    /\ quit' = "exited"
    /\ UNCHANGED <<textarea, messages, viewport, err, heap, stdout, keys>>

\* ------------------------------------------------------------ the worker
\* processAPIResponse up to its loop: a status >= 400 is logged and dropped
WorkerStatus(r) ==
    /\ quit # "exited"
    /\ reqs[r].worker = "start"
    /\ reqs' = [reqs EXCEPT ![r].worker =
            IF reqs[r].status >= 400 THEN "apierror" ELSE "reading"]
    /\ UNCHANGED <<textarea, messages, viewport, err, heap, quit, stdout, keys>>

RECURSIVE SumDeltas(_)
SumDeltas(n) ==
    IF n = 0 THEN 0
    ELSE SumDeltas(n - 1) + Len(reqs[n].sent) + (IF reqs[n].worker = "sending" THEN 1 ELSE 0)

\* non-blank lines read so far in this run, by all workers
TotalDeltas == SumDeltas(Len(reqs))

\* one ReadString('\n') that returns a whole record: a non-blank line is put
\* on the channel (the send blocks until the consumer receives)
\* ReadEffect with the blank test made on the record before it is trimmed
ReadEffectRawTest(req, rec) ==
    LET line == TrimSpace(ReadString(rec))
    IN [req EXCEPT !.worker = IF rec # << >> THEN "sending" ELSE "reading",
                   !.line   = line]

ReadEffect(req, rec) ==
    LET line == TrimSpace(ReadString(rec))
    IN [req EXCEPT !.worker = IF line # << >> THEN "sending" ELSE "reading",
                   !.line   = line]

ReadLine(r, rec, limit) ==
    /\ quit # "exited"
    /\ reqs[r].worker = "reading"
    /\ TotalDeltas < limit
    /\ reqs' = [reqs EXCEPT ![r] = ReadEffect(reqs[r], rec)]
    /\ UNCHANGED <<textarea, messages, viewport, err, heap, quit, stdout, keys>>

WorkerReadLine(r, rec) == ReadLine(r, rec, MaxDeltas)

\* one ReadString('\n') that returns an error: io.EOF ends the loop, any
\* other error is logged and the worker returns
\* EndEffect with the unterminated last record flushed as one more delta
EndEffectFlush(req, e, partial) ==
    IF e = "EOF" /\ TrimSpace(partial) # << >>
    THEN [req EXCEPT !.worker = "eof", !.sent = Append(req.sent, TrimSpace(partial))]
    ELSE [req EXCEPT !.worker = IF e = "EOF" THEN "eof" ELSE "readerr"]

\* (the data ReadString returns together with the error, `partial`, is dropped)
EndEffect(req, e, partial) ==
    [req EXCEPT !.worker = IF e = "EOF" THEN "eof" ELSE "readerr"]

WorkerReadEnd(r, e) ==
    /\ quit # "exited"
    /\ reqs[r].worker = "reading"
    /\ reqs' = [reqs EXCEPT ![r] = EndEffect(reqs[r], e, << >>)]
    /\ UNCHANGED <<textarea, messages, viewport, err, heap, quit, stdout, keys>>

RECURSIVE SumReads(_)
SumReads(n) == IF n = 0 THEN 0 ELSE SumReads(n - 1) + Len(reqs[n].read)

\* records read so far in this run by logged workers
TotalReads == SumReads(Len(reqs))

\* ReadLine, keeping the record in the history of the request
LoggedReadLine(r, rec, limit) ==
    /\ quit # "exited"
    /\ reqs[r].worker = "reading"
    /\ TotalReads < limit
    /\ reqs' = [reqs EXCEPT ![r] =
            [ReadEffect(reqs[r], rec) EXCEPT !.read = Append(reqs[r].read, rec)]]
    /\ UNCHANGED <<textarea, messages, viewport, err, heap, quit, stdout, keys>>

\* WorkerReadEnd for a body whose last record `partial` has no newline,
\* keeping that record in the history of the request
LoggedReadEnd(r, e, partial) ==
    /\ quit # "exited"
    /\ reqs[r].worker = "reading"
    /\ reqs' = [reqs EXCEPT ![r] =
            [EndEffect(reqs[r], e, partial) EXCEPT !.tail = partial]]
    /\ UNCHANGED <<textarea, messages, viewport, err, heap, quit, stdout, keys>>

\* ---------------------------------------------------------- the consumer
\* what one iteration of `for result := range resultChan` does to the model
\* copy the goroutine closes over
ConsumeEffect(h, cm, result, r) ==
    LET ap == AppendSlice(h, cm, Line("Claude", result), r)
    IN [heap |-> ap.heap, cm |-> ap.s, cview |-> Elems(ap.heap, ap.s)]

\* ConsumerRecv with one consumer for the whole session, which ranges over
\* the channel of the latest request only
ConsumerRecvLatest(r) ==
    /\ quit # "exited"
    /\ r = Len(reqs)
    /\ reqs[r].worker = "sending"
    /\ LET c == ConsumeEffect(heap, reqs[r].cm, reqs[r].line, r)
       IN /\ heap' = c.heap
          /\ reqs' = [reqs EXCEPT
                ![r].cm     = c.cm,
                ![r].cview  = c.cview,
                ![r].sent   = Append(reqs[r].sent, reqs[r].line),
                ![r].line   = << >>,
                ![r].worker = "reading"]
    /\ UNCHANGED <<textarea, messages, viewport, err, quit, stdout, keys>>

\* the rendezvous on resultChan and the loop body of the consumer goroutine
ConsumerRecv(r) ==
    /\ quit # "exited"
    /\ reqs[r].worker = "sending"
    /\ reqs[r].consumer = "ranging"
    /\ ~reqs[r].closed
    /\ LET c == ConsumeEffect(heap, reqs[r].cm, reqs[r].line, r)
       IN /\ heap' = c.heap
          /\ reqs' = [reqs EXCEPT
                ![r].cm     = c.cm,
                ![r].cview  = c.cview,
                ![r].sent   = Append(reqs[r].sent, reqs[r].line),
                ![r].line   = << >>,
                ![r].worker = "reading"]
    /\ UNCHANGED <<textarea, messages, viewport, err, quit, stdout, keys>>

\* the runtime handles the QuitMsg: Run returns and the process ends
Exit ==
    /\ quit = "quitting"
    /\ quit' = "exited"
    /\ UNCHANGED <<textarea, messages, viewport, err, heap, reqs, stdout, keys>>

Next ==
    \/ \E c \in Chars : KeyRune(c)
    \/ KeyEnter
    \/ \E k \in {"ctrl+c", "esc"} : KeyQuit(k)
    \/ \E r \in Reqs : UpdateErr(r)
    \/ \E r \in Reqs : \E ok \in BOOLEAN : \E st \in Statuses : RunCmd(r, ok, st)
    \/ \E r \in Reqs : WorkerStatus(r)
    \/ \E r \in Reqs : \E rec \in Records : WorkerReadLine(r, rec)
    \/ \E r \in Reqs : \E e \in {"EOF", "reset"} : WorkerReadEnd(r, e)
    \/ \E r \in Reqs : ConsumerRecv(r)
    \/ Exit

Spec == Init /\ [][Next]_vars

\* the same program when the user only presses Enter and then quits, and the
\* service always answers 200 with lines "x": more Enter keys fit the run
NextDeep ==
    \/ Submit(MaxSubmitsDeep)
    \/ KeyQuit("esc")
    \/ \E r \in Reqs : RunCmd(r, TRUE, 200)
    \/ \E r \in Reqs : WorkerStatus(r)
    \/ \E r \in Reqs : ReadLine(r, <<"x">>, MaxDeltasDeep)
    \/ \E r \in Reqs : ConsumerRecv(r)
    \/ Exit

SpecDeep == Init /\ [][NextDeep]_vars

\* the same program when the service always answers 200 and the records the
\* worker reads are kept: the decoding of response bodies
NextDecode ==
    \/ Submit(MaxSubmitsDecode)
    \/ \E r \in Reqs : RunCmd(r, TRUE, 200)
    \/ \E r \in Reqs : WorkerStatus(r)
    \/ \E r \in Reqs : \E rec \in DecodeRecords : LoggedReadLine(r, rec, MaxReads)
    \/ \E r \in Reqs : \E e \in {"EOF", "reset"} : \E partial \in DecodeRecords :
            LoggedReadEnd(r, e, partial)
    \/ \E r \in Reqs : ConsumerRecv(r)

SpecDecode == Init /\ [][NextDecode]_vars

\* the program of Spec with the error return of json.Marshal as one more
\* outcome of the command
NextLocal ==
    \/ Next
    \/ \E r \in Reqs : MarshalFails(r)

SpecLocal == Init /\ [][NextLocal]_vars

\* ------------------------------------------------- vocabulary of the claims
\* request r is in flight: its command has not run or its error message is
\* still on its way to Update, or its worker is still reading or sending
InFlight(r) ==
    \/ reqs[r].cmd \in {"queued", "errmsg"}
    \/ reqs[r].worker \in {"start", "reading", "sending"}

\* the session is pending
Pending == \E r \in Reqs : InFlight(r)

\* nothing more can happen for request r
Finished(r) ==
    \/ reqs[r].cmd = "failed"
    \/ reqs[r].worker \in {"eof", "readerr", "apierror"}

\* request r ended in one of the failures: the call failed, the status was
\* >= 400, or a read failed in the middle of the stream
FailedRequest(r) ==
    \/ reqs[r].cmd \in {"errmsg", "failed"}
    \/ reqs[r].worker \in {"readerr", "apierror"}

\* this step is Update handling an Enter key
EnterStep == Submit(MaxSubmits) \/ Submit(MaxSubmitsDeep)

\* the places of the UI transcript that follow the user message of request r
\* and precede the user message of the next request
TurnPlaces(r) ==
    {i \in 1..Len(Transcript) :
        /\ i > Len(reqs[r].hist)
        /\ r < Len(reqs) => i < Len(reqs[r + 1].hist)}

RECURSIVE Flat(_)
Flat(ss) == IF ss = << >> THEN << >> ELSE Head(ss) \o Flat(Tail(ss))

RECURSIVE AssistantFrom(_, _)
AssistantFrom(r, i) ==
    IF i > Len(Transcript) THEN << >>
    ELSE (IF i \in TurnPlaces(r) /\ Transcript[i].who = "Claude"
          THEN Transcript[i].text ELSE << >>) \o AssistantFrom(r, i + 1)

\* the assistant content the UI transcript holds for request r
AssistantContent(r) == AssistantFrom(r, 1)

\* the assistant messages of the UI transcript that belong to a request in flight
Streaming ==
    {i \in 1..Len(Transcript) :
        /\ Transcript[i].who = "Claude"
        /\ \E r \in Reqs : InFlight(r) /\ i \in TurnPlaces(r)}

\* a transcript as the {role, content} pairs of a request body
Pairs(t) ==
    [i \in 1..Len(t) |->
        [role |-> IF t[i].who = "You" THEN "user" ELSE "assistant",
         content |-> t[i].text]]

\* ------------------------------------------------------------------ claims
\* C1: while a request is in flight, an Enter key handled by Update appends
\* no message and starts no second request.
C1_SingleInFlight ==
    [][(Pending /\ EnterStep) =>
        (Len(Transcript') = Len(Transcript) /\ Len(reqs') = Len(reqs))]_vars

\* C2: once the stream of a request has ended at EOF, the assistant content
\* of that request in the UI transcript is the concatenation of the deltas
\* its worker produced, in the order produced.
C2_Ordering ==
    \A r \in Reqs :
        reqs[r].worker = "eof" => AssistantContent(r) = Flat(reqs[r].sent)

\* C3: the session is pending if and only if exactly one assistant message
\* of the UI transcript is streaming.
C3_StreamingFlag == Pending <=> Cardinality(Streaming) = 1

\* C4: a request for which nothing more can happen had exactly one terminal
\* event applied by Update, and no request ever has two.
C4_TerminalOnce ==
    \A r \in Reqs :
        /\ reqs[r].terminals <= 1
        /\ Finished(r) => reqs[r].terminals = 1

\* C5: a step of a consumer goroutine writes no model: not the copy it
\* closes over and not a backing array.
C5_SingleWriter ==
    [][\A r \in Reqs :
        ConsumerRecv(r) => (reqs'[r].cm = reqs[r].cm /\ heap' = heap)]_vars

\* C6: an Enter key handled while the error field is set clears it.
C6_ResubmitClearsError ==
    [][(err # "nil" /\ EnterStep) => err' = "nil"]_vars

\* C7: a request that ended in a failure for which nothing more can happen
\* had exactly one failure event applied by Update, recorded as the error.
C7_ErrorsSurfaced ==
    \A r \in Reqs :
        (FailedRequest(r) /\ Finished(r)) =>
            (reqs[r].terminals = 1 /\ err # "nil")

\* C8: Update answers a quit key at once without changing the transcript,
\* and the UI transcript does not change after Update has handled the quit.
C8_Cancellation ==
    [][/\ (quit = "running" /\ quit' = "quitting") => Transcript' = Transcript
       /\ quit # "running" => Transcript' = Transcript]_vars

\* C9: the content passed to CallClaude is the text of the input box at the
\* moment Enter was pressed.
C9_RequestCarriesText ==
    [][EnterStep => reqs'[Len(reqs')].content = textarea]_vars

\* C10: the messages list of a request body is the full transcript at the
\* time of the submit, as {role, content} pairs.
C10_FullHistory ==
    \A r \in Reqs :
        reqs[r].cmd # "queued" => reqs[r].body.messages = Pairs(reqs[r].hist)

\* --------------------------------------- vocabulary of the claims, continued
\* Update applies a terminal event of request r in this step
ErrStep(r) == r \in DOMAIN reqs' /\ reqs'[r].terminals = reqs[r].terminals + 1

White == {" ", "\t", "\r", "\n"}

\* a record that is empty or only whitespace
Blank(rec) == \A i \in 1..Len(rec) : rec[i] \in White

\* a non-blank record without its leading and trailing whitespace
Stripped(rec) ==
    LET a == CHOOSE i \in 1..Len(rec) :
                 rec[i] \notin White /\ \A j \in 1..(i - 1) : rec[j] \in White
        b == CHOOSE i \in 1..Len(rec) :
                 rec[i] \notin White /\ \A j \in (i + 1)..Len(rec) : rec[j] \in White
    IN SubSeq(rec, a, b)

\* the deltas a sequence of newline-terminated records stands for
RECURSIVE Expected(_)
Expected(recs) ==
    IF recs = << >> THEN << >>
    ELSE (IF Blank(Head(recs)) THEN << >> ELSE <<Stripped(Head(recs))>>)
         \o Expected(Tail(recs))

\* the deltas the worker of request r has emitted (the last one may still
\* wait on the channel)
Emitted(r) ==
    reqs[r].sent \o (IF reqs[r].worker = "sending" THEN <<reqs[r].line>> ELSE << >>)

\* ------------------------------------------------------- claims, continued
\* C11: an Enter key handled by Update extends the transcript by a user
\* message with the text of the input box and then an empty assistant
\* message, leaves the earlier messages alone and makes the session pending.
C11_SubmitEffect ==
    [][EnterStep =>
        /\ Len(Transcript') = Len(Transcript) + 2
        /\ SubSeq(Transcript', 1, Len(Transcript)) = Transcript
        /\ Transcript'[Len(Transcript) + 1] = Line("You", textarea)
        /\ Transcript'[Len(Transcript) + 2] = Line("Claude", << >>)
        /\ Pending']_vars

\* C12: a delta of request r that is consumed is appended to the assistant
\* content of r in the UI transcript, and the number of messages of the
\* UI transcript and of the model that took the delta stays the same.
C12_DeltaEffect ==
    [][\A r \in Reqs :
        (r \in DOMAIN reqs' /\ Len(reqs'[r].sent) = Len(reqs[r].sent) + 1) =>
            /\ AssistantContent(r)' = AssistantContent(r) \o reqs[r].line
            /\ Len(Transcript') = Len(Transcript)
            /\ reqs'[r].cm.len = reqs[r].cm.len]_vars

\* C13: in every step every message of the UI transcript keeps its place,
\* and every message that is not streaming keeps its content.
C13_AppendOnly ==
    [][\A i \in 1..Len(Transcript) :
        /\ i <= Len(Transcript')
        /\ i \notin Streaming => Transcript'[i] = Transcript[i]]_vars

\* C14: while the process runs, the channel of a request for which nothing
\* more can happen is closed and its consumer goroutine has ended (no step
\* of the program closes a channel or ends a consumer later on).
C14_BridgeLifetime ==
    \A r \in Reqs :
        (Finished(r) /\ quit = "running") =>
            (reqs[r].closed /\ reqs[r].consumer = "done")

\* C15: the deltas a worker has emitted are the trimmed texts of the
\* non-blank records it has read, one per record, in record order.
C15_Decoding == \A r \in Reqs : Emitted(r) = Expected(reqs[r].read)

C15_Witness ==
    \E r \in Reqs :
        /\ reqs[r].worker = "eof"
        /\ reqs[r].read = << <<" ", "y">>, <<" ">>, <<"x", " ">> >>
        /\ reqs[r].sent = << <<"y">>, <<"x">> >>

C18_NoStuckProducer ==
    \A r \in Reqs :
        /\ reqs[r].consumer = "ranging" /\ ~reqs[r].closed
        /\ (reqs[r].worker = "sending" /\ quit # "exited") => ENABLED ConsumerRecv(r)

C18_Witness ==
    /\ Len(reqs) = 2
    /\ reqs[1].worker = "sending"
    /\ reqs[2].worker = "sending"

\* C19: when a body ends at EOF with a non-blank last record that has no
\* newline, the deltas emitted are those of the records before it, and none
\* stands for the last record.
C19_UnterminatedLast ==
    \A r \in Reqs :
        (reqs[r].worker = "eof" /\ ~Blank(reqs[r].tail)) =>
            /\ reqs[r].sent = Expected(reqs[r].read)
            /\ reqs[r].sent # Expected(Append(reqs[r].read, reqs[r].tail))

C19_Witness ==
    \E r \in Reqs :
        /\ reqs[r].worker = "eof"
        /\ reqs[r].tail = <<"x", " ", "y">>
        /\ reqs[r].read = << <<" ">>, <<"x">> >>
        /\ reqs[r].sent = << <<"x">> >>
====
